---- MODULE Spec2Model ----
(***************************************************************************)
(* Model of molGen.py: the MolGen operator of the Blender "Molecule        *)
(* Generator" add-on.  execute() reads a molecule file line by line,       *)
(* classifies each line (terminator / atom record / bond record /          *)
(* ignored), appends atoms to the class-level list MolGen.atoms and issues *)
(* shape-creation calls (addAtom, addBond).                                *)
(*                                                                         *)
(* Units.  Every length is an exact integer number of hundredths of an     *)
(* angstrom (1.5 is 150, the default bond radius 0.05 is 5); atomScale is  *)
(* in hundredths, so an atom's sphere size RADII*atomScale is in units of  *)
(* 1e-4.  Arithmetic is exact: IEEE rounding of the Python floats is not   *)
(* modelled.  Quantities the code obtains through sqrt or atan are kept    *)
(* symbolically (the squared length, the argument of atan).                *)
(*                                                                         *)
(* A text line is [lead |-> number of leading spaces, toks |-> its         *)
(* whitespace-separated tokens].  The lines of the file are drawn when the *)
(* file iterator yields them; a line is yielded at most once, so this      *)
(* covers every file made of the lines of Lines.                           *)
(***************************************************************************)
EXTENDS Integers, Sequences, FiniteSets, TLC

\* ------------------------------------------------------------ bounds
\* Longest file, in lines.
MaxLines == 3
\* Longest atom list the model lets MolGen.atoms grow to.
MaxAtoms == 2
\* Largest bond count and bond radius drawn when addBond is called directly.
MaxCount == 4
MaxRadius == 3

\* ------------------------------------------------------------ constants
\* bondRadius default 0.05, atomScale default 0.25 (hundredths).
BondRadiusDefault == 5
AtomScaleDefault == 25

\* RADII: van der Waals radii (hundredths of an angstrom).
RADII ==
  [H |-> 120, He |-> 140, Li |-> 182, C |-> 170, N |-> 155, O |-> 152,
   F |-> 147, Ne |-> 154, Na |-> 227, Mg |-> 173, Si |-> 210, P |-> 180,
   S |-> 180, Cl |-> 175, Ar |-> 188]

\* COLOR: diffuse colour per element (thousandths).
COLOR ==
  [H |-> <<1000, 1000, 1000>>, He |-> <<0, 1000, 1000>>, Li |-> <<184, 0, 1000>>,
   C |-> <<16, 16, 16>>, N |-> <<16, 33, 1000>>, O |-> <<1000, 16, 0>>,
   F |-> <<14, 871, 14>>, Ne |-> <<0, 1000, 1000>>, Na |-> <<184, 0, 1000>>,
   Mg |-> <<0, 184, 0>>, Si |-> <<723, 184, 1000>>, P |-> <<1000, 319, 0>>,
   S |-> <<723, 723, 0>>, Cl |-> <<14, 871, 14>>, Ar |-> <<0, 1000, 1000>>]

\* ------------------------------------------------------------ state
VARIABLES
  atoms,          \* MolGen.atoms: class attribute, a list of <<x, y, z, symbol>>
  materials,      \* names present in bpy.data.materials
  hideBonds,      \* operator properties
  hideHydrogen,
  minimalCarbon,
  bondRadius,
  atomScale,
  status,         \* "idle", "running" (inside execute), "finished", "error"
  remaining,      \* lines of the open file not yet yielded
  atomsFound,     \* execute's local flag
  made,           \* shapes created while handling the latest line
  last,           \* the latest line, the branch it took and its outcome
  start,          \* history: MolGen.atoms when the running execute began
  declared,       \* history: atoms of the well-formed atom records read by this execute
  ended           \* history: this execute has read a terminator line

vars == <<atoms, materials, hideBonds, hideHydrogen, minimalCarbon, bondRadius,
          atomScale, status, remaining, atomsFound, made, last, start, declared,
          ended>>

options == <<hideBonds, hideHydrogen, minimalCarbon, bondRadius, atomScale>>

\* ------------------------------------------------------------ tokens and lines
\* float(t): the tokens float() accepts, and their values.
FloatToks == {"0.0", "1.5", "0", "1", "2", "3"}

IntToks == {"0", "1", "2", "3"}

\* int(t)
IntVal(t) ==
  CASE t = "0" -> 0 [] t = "1" -> 1 [] t = "2" -> 2 [] t = "3" -> 3

\* float(t), in hundredths
FloatVal(t) ==
  CASE t = "0.0" -> 0 [] t = "1.5" -> 150 [] t \in IntToks -> 100 * IntVal(t)

Line(lead, toks) == [lead |-> lead, toks |-> toks]

\* Header, counts and blank lines.
HeaderLines ==
  { Line(0, <<>>), Line(0, <<"ethanol">>), Line(2, <<"2", "1">>),
    Line(5, <<>>), Line(4, <<"1.5">>) }

TerminatorLines == { Line(0, <<"M", "END">>), Line(3, <<"M", "END">>) }

\* Atom records "x y z symbol", indented as SDF writes them, and malformed ones.
AtomLines ==
  { Line(4, <<"0.0", "0.0", "0.0", "C">>),
    Line(4, <<"1.5", "0.0", "0.0", "H">>),
    Line(3, <<"0.0", "0.0", "1.5", "O">>),
    Line(4, <<"0.0", "1.5", "0.0", "C">>),
    Line(4, <<"1.5", "0.0", "0.0", "Xx">>),
    Line(4, <<"x", "0.0", "0.0", "C">>),
    Line(4, <<"0.0", "0.0", "0.0">>),
    Line(4, <<"0.0", "0.0">>) }

\* Bond records "a b n" (two leading spaces, as SDF writes them), and malformed ones.
BondLines ==
  { Line(2, <<"1", "2", "1">>), Line(2, <<"1", "2", "2">>),
    Line(2, <<"2", "1", "1">>), Line(2, <<"0", "1", "1">>),
    Line(2, <<"1", "1", "1">>), Line(2, <<"1", "3", "1">>),
    Line(2, <<"1", "2", "0">>), Line(2, <<"1", "x", "1">>),
    Line(2, <<"1", "2", "1.5">>) }

Lines == HeaderLines \cup TerminatorLines \cup AtomLines \cup BondLines

NoLine == Line(0, <<"">>)

\* ------------------------------------------------------------ pure helpers
\* line.split()
Split(line) == line.toks

\* line.startswith("   ")
StartsWith3(line) == line.lead >= 3

\* props[0] == "M" and props[1] == "END"
IsTerminator(props) == props[1] = "M" /\ props[2] = "END"

\* The branch of execute's if/elif chain a line takes.
\* Faulty variant: the bond branch taken without testing atomsFound.
ClassifyNoFlag(line, found) ==
  LET props == Split(line) IN
  IF Len(props) >= 2
  THEN IF IsTerminator(props) THEN "terminator"
       ELSE IF StartsWith3(line) THEN "atom"
       ELSE "bond"
  ELSE "ignored"

Classify(line, found) ==
  LET props == Split(line) IN
  IF Len(props) >= 2
  THEN IF IsTerminator(props) THEN "terminator"
       ELSE IF StartsWith3(line) THEN "atom"
       ELSE IF found THEN "bond"
       ELSE "ignored"
  ELSE "ignored"

\* The exception raised while building (float(props[0]), float(props[1]),
\* float(props[2]), props[3]), evaluated left to right; "none" if it is built.
AtomFieldError(props) ==
  IF props[1] \notin FloatToks THEN "ValueError"
  ELSE IF props[2] \notin FloatToks THEN "ValueError"
  ELSE IF Len(props) < 3 THEN "IndexError"
  ELSE IF props[3] \notin FloatToks THEN "ValueError"
  ELSE IF Len(props) < 4 THEN "IndexError"
  ELSE "none"

\* The tuple appended for a well-formed atom record.
AtomTuple(props) ==
  <<FloatVal(props[1]), FloatVal(props[2]), FloatVal(props[3]), props[4]>>

\* The exception raised while evaluating int(props[0])-1, int(props[1])-1,
\* int(props[2]), left to right.
BondFieldError(props) ==
  IF props[1] \notin IntToks THEN "ValueError"
  ELSE IF props[2] \notin IntToks THEN "ValueError"
  ELSE IF Len(props) < 3 THEN "IndexError"
  ELSE IF props[3] \notin IntToks THEN "ValueError"
  ELSE "none"

\* self.atoms.append(t)
\* Faulty variant: the tuple inserted at the head of the list.
AppendAtomFront(list, t) == <<t>> \o list

AppendAtom(list, t) == Append(list, t)

\* "element_" + symbol
MatName(symbol) == "element_" \o symbol

\* bpy.data.materials.get(name)
MaterialGet(mats, name) == IF name \in mats THEN name ELSE "None"

\* Python list indexing self.atoms[a] with a 0-based, possibly negative index:
\* the 1-based position it resolves to, 0 for IndexError.
Resolve(a, len) ==
  IF 0 <= a /\ a < len THEN a + 1
  ELSE IF a < 0 /\ -len <= a THEN len + a + 1
  ELSE 0

\* ------------------------------------------------------------ addAtom
\* if self.hideHydrogen and symbol == "H": return
ShouldSkipAtom(hide, symbol) == hide /\ symbol = "H"

\* The exception raised by the size argument RADII[symbol]*self.atomScale.
SizeLookupError(minimal, symbol) ==
  IF minimal /\ symbol = "C" THEN "none"
  ELSE IF symbol \notin DOMAIN RADII THEN "KeyError"
  ELSE "none"

\* size argument of primitive_ico_sphere_add, in units of 1e-4
SphereSize(minimal, symbol) ==
  IF minimal /\ symbol = "C" THEN 100 * bondRadius
  ELSE RADII[symbol] * atomScale

\* addAtom(symbol, x, y, z) for the atom just appended at position idx of the list:
\* its outcome, the shapes it creates and the materials afterwards.
AddAtom(t, idx) ==
  LET symbol == t[4] IN
  IF ShouldSkipAtom(hideHydrogen, symbol)
  THEN [out |-> "hidden", made |-> <<>>, mats |-> materials]
  ELSE IF SizeLookupError(minimalCarbon, symbol) # "none"
  THEN [out |-> SizeLookupError(minimalCarbon, symbol), made |-> <<>>,
        mats |-> materials]
  ELSE [out |-> "atom",
        made |-> << [kind |-> "ico_sphere", owner |-> idx, sym |-> symbol,
                     mat |-> MatName(symbol),
                     size |-> SphereSize(minimalCarbon, symbol),
                     location |-> <<t[1], t[2], t[3]>>,
                     color |-> COLOR[symbol]] >>,
        mats |-> materials \cup {MatName(symbol)}]

\* ------------------------------------------------------------ addBond
\* The hideHydrogen test of addBond, with Python's short-circuit "or":
\* "skip" (return), "IndexError" (an index is out of range) or "go".
\* Faulty variant: only the first endpoint is tested.
HydrogenCheckFirstOnly(list, hide, a1, a2) ==
  IF ~hide THEN "go"
  ELSE IF Resolve(a1, Len(list)) = 0 THEN "IndexError"
  ELSE IF list[Resolve(a1, Len(list))][4] = "H" THEN "skip"
  ELSE "go"

HydrogenCheck(list, hide, a1, a2) ==
  IF ~hide THEN "go"
  ELSE IF Resolve(a1, Len(list)) = 0 THEN "IndexError"
  ELSE IF list[Resolve(a1, Len(list))][4] = "H" THEN "skip"
  ELSE IF Resolve(a2, Len(list)) = 0 THEN "IndexError"
  ELSE IF list[Resolve(a2, Len(list))][4] = "H" THEN "skip"
  ELSE "go"

\* rotX: pi/2, or atan(dY/sqrt(dZ**2+dX**2)), negated if 0 < dZ.
RotX(dX, dY, dZ) ==
  IF dX = 0 /\ dZ = 0
  THEN [form |-> "pi/2", num |-> 0, den |-> 0, neg |-> 0 < dZ]
  ELSE [form |-> "atan(num/sqrt(den))", num |-> dY, den |-> dZ * dZ + dX * dX,
        neg |-> 0 < dZ]

\* rotY: pi/2, or atan(dX/dZ).
RotY(dX, dZ) ==
  IF dZ = 0
  THEN [form |-> "pi/2", num |-> 0, den |-> 0]
  ELSE [form |-> "atan(num/den)", num |-> dX, den |-> dZ]

\* modXY = self.bondRadius*(2*i-n+1)*2
\* Faulty variant: the +1 dropped.
ModXYOffByOne(radius, i, n) == radius * (2 * i - n) * 2

ModXY(radius, i, n) == radius * (2 * i - n + 1) * 2

\* The divisions of addBond: true when one of them divides by zero.
DividesByZero(dX, dY, dZ, n) ==
  \/ ~(dX = 0 /\ dZ = 0) /\ dZ * dZ + dX * dX = 0      \* dY/math.sqrt(dZ**2+dX**2)
  \/ dZ # 0 /\ dZ = 0                                   \* dX/dZ
  \/ n >= 1 /\ dY * dY + dX * dX = 0                    \* dY/dXY, -dX/dXY

\* One half-bond cylinder: instance i of n, anchored to the atom at position r
\* (sign 1 for the first atom, -1 for the second).  location is
\* atom + d/4*sign + (modX, modY, 0) with modX = dY/dXY*modXY and
\* modY = -dX/dXY*modXY; base4 is 4*(atom + d/4*sign).
HalfBond(list, mats, radius, r, sign, i, n, dX, dY, dZ) ==
  [kind |-> "cylinder", owner |-> r, sym |-> list[r][4],
   mat |-> MaterialGet(mats, MatName(list[r][4])),
   inst |-> i, sign |-> sign, radius |-> radius,
   modXY |-> ModXY(radius, i, n),
   dir |-> <<dY, -dX>>, dXYsq |-> dY * dY + dX * dX,
   base4 |-> <<4 * list[r][1] + dX * sign, 4 * list[r][2] + dY * sign,
               4 * list[r][3] + dZ * sign>>,
   depthSq4 |-> dX * dX + dY * dY + dZ * dZ,
   rot |-> <<RotX(dX, dY, dZ), RotY(dX, dZ), 0>>]

\* The geometry part of addBond for in-range indices r1, r2 (1-based positions).
BondGeometry(list, mats, radius, r1, r2, n) ==
  LET dX == list[r2][1] - list[r1][1]
      dY == list[r2][2] - list[r1][2]
      dZ == list[r2][3] - list[r1][3]
  IN  IF DividesByZero(dX, dY, dZ, n)
      THEN [out |-> "ZeroDivisionError", made |-> <<>>]
      ELSE [out |-> "bond",
            made |-> [k \in 1..(IF n > 0 THEN 2 * n ELSE 0) |->
                       HalfBond(list, mats, radius,
                                IF k % 2 = 1 THEN r1 ELSE r2,
                                IF k % 2 = 1 THEN 1 ELSE -1,
                                (k - 1) \div 2, n, dX, dY, dZ)]]

\* addBond(a1, a2, n): its outcome and the shapes it creates.
AddBond(list, mats, a1, a2, n) ==
  IF hideBonds THEN [out |-> "skipped", made |-> <<>>]
  ELSE IF HydrogenCheck(list, hideHydrogen, a1, a2) = "skip"
  THEN [out |-> "skipped", made |-> <<>>]
  ELSE IF HydrogenCheck(list, hideHydrogen, a1, a2) = "IndexError"
  THEN [out |-> "IndexError", made |-> <<>>]
  ELSE IF Resolve(a2, Len(list)) = 0 \/ Resolve(a1, Len(list)) = 0
  THEN [out |-> "IndexError", made |-> <<>>]
  ELSE BondGeometry(list, mats, bondRadius, Resolve(a1, Len(list)),
                    Resolve(a2, Len(list)), n)

\* ------------------------------------------------------------ execute
IsError(out) == out \in {"ValueError", "IndexError", "KeyError", "ZeroDivisionError",
                         "OSError"}

\* execute has no try/except: an exception raised while a line is handled leaves
\* the loop and execute.  The status after a line whose outcome is out.
\* Faulty variant: the exception is swallowed and the loop goes on.
PropagateSwallowed(out) == "running"

Propagate(out) == IF IsError(out) THEN "error" ELSE "running"

\* MolGen.atoms after an atom record: line 146 appends before line 147 calls
\* addAtom, so the tuple stays appended whatever addAtom's outcome out is.
\* Faulty variant: addAtom called before the append.
AtomsAfterAddAtomFirst(list, t, out) == IF IsError(out) THEN list ELSE Append(list, t)

AtomsAfter(list, t, out) == AppendAtom(list, t)

\* The status after a "M END" line: break leaves the loop and execute returns.
\* Faulty variant: continue in place of break.
StatusAfterTerminatorContinue == "running"

StatusAfterTerminator == "finished"

Init ==
  /\ atoms = <<>>
  /\ materials = {}
  /\ hideBonds = FALSE
  /\ hideHydrogen = FALSE
  /\ minimalCarbon = FALSE
  /\ bondRadius = BondRadiusDefault
  /\ atomScale = AtomScaleDefault
  /\ status = "idle"
  /\ remaining = 0
  /\ atomsFound = FALSE
  /\ made = <<>>
  /\ last = [line |-> NoLine, cls |-> "none", out |-> "none", args |-> <<>>]
  /\ start = <<>>
  /\ declared = <<>>
  /\ ended = FALSE

\* The user sets the operator's properties and picks a file; execute opens it.
ExecuteOpen ==
  /\ status # "running"
  /\ hideBonds' \in BOOLEAN
  /\ hideHydrogen' \in BOOLEAN
  /\ minimalCarbon' \in BOOLEAN
  /\ remaining' \in 0..MaxLines
  /\ status' = "running"
  /\ atomsFound' = FALSE
  /\ made' = <<>>
  /\ last' = [line |-> NoLine, cls |-> "open", out |-> "none", args |-> <<>>]
  /\ start' = atoms
  /\ declared' = <<>>
  /\ ended' = FALSE
  /\ UNCHANGED <<atoms, materials, bondRadius, atomScale>>

\* open(self.filepath) raises: execute fails before reading a line.
ExecuteOpenFails ==
  /\ status # "running"
  /\ status' = "error"
  /\ remaining' = 0
  /\ atomsFound' = FALSE
  /\ made' = <<>>
  /\ last' = [line |-> NoLine, cls |-> "open", out |-> "OSError", args |-> <<>>]
  /\ start' = atoms
  /\ declared' = <<>>
  /\ ended' = FALSE
  /\ UNCHANGED <<atoms, materials, options>>

\* A line with fewer than two tokens, or read before any atom record.
ReadIgnored ==
  /\ status = "running" /\ remaining > 0
  /\ \E line \in Lines :
       /\ Classify(line, atomsFound) = "ignored"
       /\ last' = [line |-> line, cls |-> "ignored", out |-> "ignored", args |-> <<>>]
  /\ remaining' = remaining - 1
  /\ made' = <<>>
  /\ UNCHANGED <<atoms, materials, options, status, atomsFound, start, declared, ended>>

\* "M END": break.
ReadTerminator ==
  /\ status = "running" /\ remaining > 0
  /\ \E line \in Lines :
       /\ Classify(line, atomsFound) = "terminator"
       /\ last' = [line |-> line, cls |-> "terminator", out |-> "terminator",
                   args |-> <<>>]
  /\ remaining' = remaining - 1
  /\ status' = StatusAfterTerminator
  /\ ended' = TRUE
  /\ made' = <<>>
  /\ UNCHANGED <<atoms, materials, options, atomsFound, start, declared>>

\* An atom record: append the tuple, then addAtom.
ReadAtom ==
  /\ status = "running" /\ remaining > 0
  /\ \E line \in Lines :
       LET props == Split(line)
           t == AtomTuple(props)
           res == AddAtom(t, Len(atoms) + 1)
       IN  /\ Classify(line, atomsFound) = "atom"
           /\ IF AtomFieldError(props) # "none"
              THEN /\ last' = [line |-> line, cls |-> "atom",
                               out |-> AtomFieldError(props), args |-> <<>>]
                   /\ status' = Propagate(AtomFieldError(props))
                   /\ made' = <<>>
                   /\ UNCHANGED <<atoms, materials>>
              ELSE /\ Len(atoms) < MaxAtoms
                   /\ atoms' = AtomsAfter(atoms, t, res.out)
                   /\ last' = [line |-> line, cls |-> "atom", out |-> res.out,
                               args |-> t]
                   /\ status' = Propagate(res.out)
                   /\ made' = res.made
                   /\ materials' = res.mats
           /\ declared' = IF \A k \in 1..3 : k <= Len(props) /\ props[k] \in FloatToks
                          THEN IF Len(props) >= 4
                               THEN Append(declared,
                                           <<FloatVal(props[1]), FloatVal(props[2]),
                                             FloatVal(props[3]), props[4]>>)
                               ELSE declared
                          ELSE declared
  /\ atomsFound' = TRUE
  /\ remaining' = remaining - 1
  /\ UNCHANGED <<options, start, ended>>

\* A bond record: convert the three fields, then addBond.
ReadBond ==
  /\ status = "running" /\ remaining > 0
  /\ \E line \in Lines :
       LET props == Split(line) IN
       /\ Classify(line, atomsFound) = "bond"
       /\ IF BondFieldError(props) # "none"
          THEN /\ last' = [line |-> line, cls |-> "bond",
                           out |-> BondFieldError(props), args |-> <<>>]
               /\ status' = Propagate(BondFieldError(props))
               /\ made' = <<>>
          ELSE LET a1 == IntVal(props[1]) - 1
                   a2 == IntVal(props[2]) - 1
                   n == IntVal(props[3])
                   res == AddBond(atoms, materials, a1, a2, n)
               IN  /\ last' = [line |-> line, cls |-> "bond", out |-> res.out,
                               args |-> <<a1, a2, n>>]
                   /\ status' = Propagate(res.out)
                   /\ made' = res.made
  /\ remaining' = remaining - 1
  /\ UNCHANGED <<atoms, materials, options, atomsFound, start, declared, ended>>

\* The file is exhausted: the loop ends and execute returns {'FINISHED'}.
EndOfFile ==
  /\ status = "running" /\ remaining = 0
  /\ status' = "finished"
  /\ UNCHANGED <<atoms, materials, options, remaining, atomsFound, made, last, start,
                 declared, ended>>

Next ==
  \/ ExecuteOpen
  \/ ExecuteOpenFails
  \/ ReadIgnored
  \/ ReadTerminator
  \/ ReadAtom
  \/ ReadBond
  \/ EndOfFile

Spec == Init /\ [][Next]_vars

\* ------------------------------------------------------------ addBond called directly
\* Positions and radii the direct calls are made with.
Coords == {0, 150}

Positions == {<<x, y, z>> : x \in Coords, y \in Coords, z \in {0, 100}}

InitBond ==
  /\ \E p \in Positions, q \in Positions, s \in {"C", "H"} :
       atoms = << <<p[1], p[2], p[3], "C">>, <<q[1], q[2], q[3], s>> >>
  /\ materials = {MatName("C"), MatName("H")}
  /\ hideBonds \in BOOLEAN
  /\ hideHydrogen \in BOOLEAN
  /\ minimalCarbon = FALSE
  /\ bondRadius \in 0..MaxRadius
  /\ atomScale = AtomScaleDefault
  /\ status = "running"
  /\ remaining = 0
  /\ atomsFound = TRUE
  /\ made = <<>>
  /\ last = [line |-> NoLine, cls |-> "none", out |-> "none", args |-> <<>>]
  /\ start = <<>>
  /\ declared = atoms
  /\ ended = FALSE

\* self.addBond(0, 1, n)
CallAddBond ==
  /\ \E n \in 1..MaxCount :
       LET res == AddBond(atoms, materials, 0, 1, n) IN
       /\ made' = res.made
       /\ last' = [line |-> NoLine, cls |-> "bond", out |-> res.out,
                   args |-> <<0, 1, n>>]
  /\ UNCHANGED <<atoms, materials, options, status, remaining, atomsFound, start,
                 declared, ended>>

NextBond == CallAddBond

SpecBond == InitBond /\ [][NextBond]_vars

\* ------------------------------------------------------------ vocabulary of the properties
\* The supported element symbols.
Elements == {"H", "He", "Li", "C", "N", "O", "F", "Ne", "Na", "Mg", "Si", "P", "S",
             "Cl", "Ar"}

\* A step that handles one line of the file.
LineStep == last'.cls # "open" /\ remaining' = remaining - 1

\* The latest step handled a line of the file.
LineHandled == last.cls \in {"atom", "bond", "ignored", "terminator"}

HasTwoTokens(line) == Len(line.toks) >= 2

TerminatorShape(line) ==
  HasTwoTokens(line) /\ line.toks[1] = "M" /\ line.toks[2] = "END"

\* x, y, z numeric and a symbol present / index A, index B, count integers.
WellFormedAtom(line) ==
  Len(line.toks) >= 4 /\ \A k \in 1..3 : line.toks[k] \in FloatToks

WellFormedBond(line) ==
  Len(line.toks) >= 3 /\ \A k \in 1..3 : line.toks[k] \in IntToks

\* The latest line was taken as an atom or bond record and a required field of
\* it is missing or not numeric.
MalformedLast ==
  \/ last.cls = "atom" /\ ~WellFormedAtom(last.line)
  \/ last.cls = "bond" /\ ~WellFormedBond(last.line)

\* The latest line is a well-formed atom record whose symbol is not an element.
UnknownSymbolLast ==
  /\ last.cls = "atom"
  /\ WellFormedAtom(last.line)
  /\ last.line.toks[4] \notin Elements

\* The latest line is a bond record whose fields were converted.
BondConverted == last.cls = "bond" /\ WellFormedBond(last.line)

Position(t) == <<t[1], t[2], t[3]>>

\* ------------------------------------------------------------ C1
\* C1: once a line whose first two tokens are "M" and "END" has been read, no
\* further line of that file is handled: no atom is appended and no atom or
\* bond shape is created, whatever the lines after it are.
C1_TerminatorStops ==
  [][ended => (~LineStep /\ atoms' = atoms /\ made' = <<>>)]_vars

\* A terminator was read while lines of the file were still unread.
C1_Witness == ended /\ status = "finished" /\ remaining > 0

\* ------------------------------------------------------------ C2
\* C2: during an execute the atom list is the list it started with followed by
\* the atoms of the atom records read so far, in the order read; when it started
\* empty, the k-th atom record is at 0-based index k-1, the position the bond
\* value k resolves to, whatever hideHydrogen and minimalCarbon are.
C2_AtomOrder ==
  /\ atoms = start \o declared
  /\ start = <<>> =>
       \A k \in 1..Len(declared) :
         Resolve(k - 1, Len(atoms)) = k /\ atoms[k] = declared[k]

\* A hidden hydrogen is the first of two atoms of a parse that started empty.
C2_Witness ==
  /\ start = <<>> /\ hideHydrogen
  /\ Len(atoms) >= 2 /\ atoms[1][4] = "H" /\ atoms[2][4] # "H"

C4_BondIndicesValid ==
  (BondConverted /\ last.out \in {"bond", "ZeroDivisionError"}) =>
    /\ last.args[1] # last.args[2]
    /\ last.args[1] \in 0..(Len(atoms) - 1)
    /\ last.args[2] \in 0..(Len(atoms) - 1)

\* ------------------------------------------------------------ C5
\* C5 as stated: a line read before the terminator is taken as an atom record
\* iff it begins with three spaces, as a bond record iff it does not and an
\* earlier line was an atom record, and is ignored otherwise.
C5_ClassificationByPrefix ==
  (LineHandled /\ ~TerminatorShape(last.line)) =>
    /\ last.cls = "atom" <=> last.line.lead >= 3
    /\ last.cls = "bond" <=> (last.line.lead < 3 /\ declared # <<>>)
    /\ last.cls = "ignored" <=> (last.line.lead < 3 /\ declared = <<>>)

\* C5 as amended: a line with fewer than two tokens is ignored wherever it
\* stands; a line with at least two tokens that is not the terminator is taken
\* as an atom record iff it begins with three spaces (atomsFound is then true
\* for the rest of the parse), as a bond record iff it does not and an earlier
\* line was an atom record, and is ignored otherwise; an ignored line creates
\* nothing and raises nothing.
C5_Classification ==
  /\ LineHandled =>
       /\ last.cls = "terminator" <=> TerminatorShape(last.line)
       /\ ~HasTwoTokens(last.line) => last.cls = "ignored"
       /\ (HasTwoTokens(last.line) /\ ~TerminatorShape(last.line)) =>
            /\ last.cls = "atom" <=> last.line.lead >= 3
            /\ last.cls = "bond" <=> (last.line.lead < 3 /\ declared # <<>>)
            /\ last.cls = "ignored" <=> (last.line.lead < 3 /\ declared = <<>>)
       /\ last.cls = "ignored" => (made = <<>> /\ status # "error")
  /\ (last.cls = "atom" \/ declared # <<>>) => atomsFound

\* An indented line with a single token is ignored after an atom record.
C5_Witness ==
  /\ last.cls = "ignored" /\ last.line.lead >= 3 /\ Len(last.line.toks) = 1
  /\ declared # <<>>

\* ------------------------------------------------------------ C6
\* C6: with hideBonds no half-bond is created; with hideHydrogen no shape is
\* created for an "H" atom, none for a bond with an "H" endpoint, and no created
\* shape belongs to a hydrogen atom.
C6_Suppression ==
  /\ hideBonds => \A k \in 1..Len(made) : made[k].kind # "cylinder"
  /\ hideHydrogen => \A k \in 1..Len(made) : made[k].sym # "H"
  /\ (hideHydrogen /\ last.cls = "atom" /\ WellFormedAtom(last.line)
        /\ last.line.toks[4] = "H") => made = <<>>
  /\ (hideHydrogen /\ BondConverted
        /\ \E j \in 1..2 :
             /\ Resolve(last.args[j], Len(atoms)) # 0
             /\ atoms[Resolve(last.args[j], Len(atoms))][4] = "H")
       => made = <<>>

\* A bond from a non-hydrogen atom to a hydrogen atom is skipped by hideHydrogen.
C6_Witness ==
  /\ hideHydrogen /\ ~hideBonds /\ BondConverted /\ last.out = "skipped"
  /\ Resolve(last.args[1], Len(atoms)) # 0
  /\ atoms[Resolve(last.args[1], Len(atoms))][4] # "H"

C8_FailsOnlyAtSamePosition ==
  (BondConverted /\ last.out = "ZeroDivisionError") =>
    Position(atoms[Resolve(last.args[1], Len(atoms))])
      = Position(atoms[Resolve(last.args[2], Len(atoms))])

\* ------------------------------------------------------------ C9
\* C9 as stated: an atom record with an unknown symbol does not make the parse
\* fail; its atom is appended and the parse goes on.
C9_UnknownSymbolParses ==
  UnknownSymbolLast =>
    /\ atoms # <<>> /\ atoms[Len(atoms)] = AtomTuple(last.line.toks)
    /\ status = "running"

\* C9 as amended: the atom of an atom record with an unknown symbol is appended,
\* then the radius lookup made for that same line raises KeyError: no shape is
\* created, execute fails and no later line is handled.
C9_UnknownSymbolAborts ==
  /\ [](UnknownSymbolLast =>
          /\ atoms # <<>> /\ atoms[Len(atoms)] = AtomTuple(last.line.toks)
          /\ last.out = "KeyError" /\ status = "error" /\ made = <<>>)
  /\ [][UnknownSymbolLast => ~LineStep]_vars

\* An atom with an unknown symbol was read while lines were still unread.
C9_Witness == UnknownSymbolLast /\ remaining > 0 /\ atoms # <<>>

====
